---- MODULE Spec2Model ----
(***************************************************************************)
(* Tiered conversational memory (app/memory_manager.py): the Redis hot     *)
(* tier, the MongoDB durable tier, the counter-triggered escalations and   *)
(* the login/logout transfer, as a state machine.                          *)
(*                                                                         *)
(* add_message is a coroutine: it gives up control only at its awaits      *)
(* (the MongoDB inserts and the LLM calls), and the Redis client is the    *)
(* synchronous one, so each action below is the code between two awaits.   *)
(***************************************************************************)
EXTENDS Integers, Sequences, FiniteSets, TLC

(* ------------------------------ bounds --------------------------------- *)

\* Messages created in one behaviour of sequential ingestion.
MaxTurns == 16

\* Messages created in one behaviour with logins and logouts.
MaxSessionTurns == 9

\* Messages created in one behaviour in which store operations may fail.
MaxFaultTurns == 9

\* Store operations (Redis or MongoDB) that fail in one such behaviour.
MaxFaults == 1

\* Messages created in a behaviour with logins, logouts and failing store
\* operations.
MaxSessionFaultTurns == 8

\* Messages created in one behaviour in which contexts are read while store
\* operations may fail.
MaxReadTurns == 8

\* Messages created in one behaviour of process_conversation calls in which
\* store operations may fail.
MaxProcessTurns == 8

\* Messages created in one behaviour of ingestion under identifiers that
\* hold the key separator.
MaxKeyTurns == 8

\* Messages created in one behaviour in which turns are ingested while an
\* earlier ingestion awaits a collaborator.
MaxOverlapTurns == 12

\* Messages created in one behaviour of concurrent ingestion.
MaxConcurrentTurns == 8

\* Bullet lines in the longest reply the Extractor gives.
MaxBullets == 6

(* --------------------------- identifiers ------------------------------- *)

Users == {"u1", "u2"}

Convs == {"c1", "c2"}

Pairs == Users \X Convs

\* The (user, conversation) whose requests the specifications below serve.
One == {<<"u1", "c1">>}

\* Identifiers that hold the separator of the hot-store keys.
KeyUsers == {"u1", "u1:c1"}

KeyConvs == {"c2", "c1:c2"}

KeyPairs == KeyUsers \X KeyConvs

\* The pair ingested into under such identifiers.
KeyOne == {<<"u1:c1", "c2">>}

TaskIds == {1, 2}

\* redis-py returns None for a missing key; no stored text equals it.
None == "<None>"

(* ------------------------- generic helpers ----------------------------- *)

Min(a, b) == IF a < b THEN a ELSE b

Max(a, b) == IF a > b THEN a ELSE b

\* Python reversed(list)
Reversed(s) == [i \in 1..Len(s) |-> s[Len(s) + 1 - i]]

\* Python list[:n]
Take(s, n) == SubSeq(s, 1, Min(n, Len(s)))

RECURSIVE JoinLines(_)
\* chr(10).join(lines)
JoinLines(lines) ==
    IF lines = <<>> THEN ""
    ELSE IF Len(lines) = 1 THEN lines[1]
    ELSE lines[1] \o "\n" \o JoinLines(Tail(lines))

\* Python s[a-1:b], for text
Sub(s, a, b) == IF a > b THEN "" ELSE SubSeq(s, a, b)

RECURSIVE LStrip(_)
LStrip(s) ==
    IF Len(s) > 0 /\ Sub(s, 1, 1) \in {" ", "\n"}
    THEN LStrip(Sub(s, 2, Len(s)))
    ELSE s

RECURSIVE RStrip(_)
RStrip(s) ==
    IF Len(s) > 0 /\ Sub(s, Len(s), Len(s)) \in {" ", "\n"}
    THEN RStrip(Sub(s, 1, Len(s) - 1))
    ELSE s

\* Python str.strip()
Strip(s) == LStrip(RStrip(s))

\* Python str.startswith(prefix)
StartsWith(s, prefix) ==
    Len(s) >= Len(prefix) /\ Sub(s, 1, Len(prefix)) = prefix

RECURSIVE SplitLinesFrom(_, _, _)
SplitLinesFrom(s, from, i) ==
    IF i > Len(s) THEN <<Sub(s, from, Len(s))>>
    ELSE IF Sub(s, i, i) = "\n"
         THEN <<Sub(s, from, i - 1)>> \o SplitLinesFrom(s, i + 1, i + 1)
         ELSE SplitLinesFrom(s, from, i + 1)

\* Python content.split('\n')
SplitLines(s) == SplitLinesFrom(s, 1, 1)

(* ----------------------------- Redis ----------------------------------- *)
\* The hot store is one key space: a function from the keys that exist to
\* their values (a list, a string or a counter).

ListAt(r, k) == IF k \in DOMAIN r THEN r[k] ELSE <<>>

Put(r, k, v) == [x \in (DOMAIN r) \cup {k} |-> IF x = k THEN v ELSE r[x]]

delete(r, k) == [x \in (DOMAIN r) \ {k} |-> r[x]]

\* A Redis list that becomes empty is removed.
PutList(r, k, l) == IF l = <<>> THEN delete(r, k) ELSE Put(r, k, l)

lpush(r, k, v) == Put(r, k, <<v>> \o ListAt(r, k))

rpush(r, k, v) == Put(r, k, Append(ListAt(r, k), v))

\* 0-based, inclusive, negative indexes count from the end.
lrange(r, k, start, stop) ==
    LET l == ListAt(r, k)
        n == Len(l)
        s == IF start < 0 THEN Max(n + start, 0) ELSE start
        e == IF stop < 0 THEN n + stop ELSE Min(stop, n - 1)
    IN  SubSeq(l, s + 1, e + 1)

ltrim(r, k, start, stop) == PutList(r, k, lrange(r, k, start, stop))

get(r, k) == IF k \in DOMAIN r THEN r[k] ELSE None

set(r, k, v) == Put(r, k, v)

\* Mutant of incr: the counter stops at 4.
incr_saturating(r, k) == Put(r, k, Min((IF k \in DOMAIN r THEN r[k] ELSE 0) + 1, 4))

\* Mutant of incr: the counter is stepped twice.
incr_twice(r, k) == Put(r, k, (IF k \in DOMAIN r THEN r[k] ELSE 0) + 2)

incr(r, k) == Put(r, k, (IF k \in DOMAIN r THEN r[k] ELSE 0) + 1)

RECURSIVE rpush_all(_, _, _)
\* for v in vs: rpush(k, v)
rpush_all(r, k, vs) ==
    IF vs = <<>> THEN r ELSE rpush_all(rpush(r, k, Head(vs)), k, Tail(vs))

\* Python "x or ''" on the result of a get
OrEmpty(x) == IF x = None \/ x = "" THEN "" ELSE x

(* ----------------------------- KeySpace -------------------------------- *)

\* keys that are not scoped by the conversation
get_redis_key_per_user(key_type, user_id, conversation_id) ==
    key_type \o ":" \o user_id

get_redis_key(key_type, user_id, conversation_id) ==
    CASE key_type = "short_term" ->
            "short_term:" \o user_id \o ":" \o conversation_id
      [] key_type = "slider_summary" ->
            "slider_summary:" \o user_id \o ":" \o conversation_id
      [] key_type = "long_term" ->
            "long_term:" \o user_id
      [] key_type = "chat_history" ->
            "chat_history:" \o user_id \o ":" \o conversation_id
      [] key_type = "message_count" ->
            "message_count:" \o user_id \o ":" \o conversation_id

(* ------------------------------ Messages ------------------------------- *)

\* datetime.isoformat(): the instant as text
isoformat(ts) == "T" \o ToString(ts)

\* msg_data of add_message
MsgData(message) ==
    [role |-> message.role, content |-> message.content,
     timestamp |-> isoformat(message.timestamp)]

\* json.dumps of a message dict: the text of its three fields, in key order
json_dumps(d) == <<"role", d.role, "content", d.content, "timestamp", d.timestamp>>

\* json.loads of such a text
json_loads(j) == [role |-> j[2], content |-> j[4], timestamp |-> j[6]]

\* f"{msg_data['role']}: {msg_data['content']}"
FormatLine(msg_data) == msg_data.role \o ": " \o msg_data.content

\* conversation_text: the lines of the given buffer entries, oldest first
ConversationText(entries) ==
    [i \in 1..Len(entries) |-> FormatLine(json_loads(Reversed(entries)[i]))]

(* ------------------------------- State --------------------------------- *)

VARIABLES
    redis,              \* self.redis_client: the hot store
    chat_history,       \* self.chat_history: the durable chat log, in insertion order
    short_term_memory,  \* self.short_term_memory: one snapshot document per (user, conversation)
    long_term_memory,   \* self.long_term_memory: the durable batches, in insertion order
    clock,              \* messages created so far; a message's timestamp is its number
    tasks,              \* the add_message coroutines: where each stands, and its locals
    faults,             \* store operations that have failed so far
    escalations,        \* history: every invocation of an escalation coroutine, in order
    llm_calls,          \* history: every llm.ainvoke, in order, with its conversation text
    session,            \* history per (user, conversation): login/logout bookkeeping
    context,            \* what get_context_for_search returned, until the next request
    turn                \* the process_conversation coroutine: where it stands, and its locals

vars == <<redis, chat_history, short_term_memory, long_term_memory, clock,
          tasks, faults, escalations, llm_calls, session, context, turn>>

durable == <<chat_history, short_term_memory, long_term_memory>>

history == <<escalations, llm_calls>>

NoMessage == [role |-> "", content |-> "", timestamp |-> 0]

\* A coroutine slot that has not been used yet.
IdleTask ==
    [pc |-> "idle", user_id |-> "", conversation_id |-> "", message |-> NoMessage,
     count |-> 0, text |-> <<>>, points |-> <<>>, error |-> ""]

\* pc of a slot with no call in progress: never used, or its last call
\* returned normally, or its last call raised to the caller.
Resting == {"idle", "returned", "raised"}

AtRest == \A t \in TaskIds : tasks[t].pc \in Resting

\* process_conversation before its first call.
IdleTurn ==
    [pc |-> "idle", user_id |-> "", conversation_id |-> "", agent_ran |-> FALSE,
     current_response |-> "", returned |-> "", cause |-> ""]

\* No get_context_for_search has returned since the last request began.
NoContext == <<>>

NewSession ==
    [used |-> FALSE, phase |-> "open", short_term |-> <<>>, slider_summary |-> None,
     count |-> 0]

Init ==
    /\ redis = <<>>
    /\ chat_history = <<>>
    /\ short_term_memory = <<>>
    /\ long_term_memory = <<>>
    /\ clock = 0
    /\ tasks = [t \in TaskIds |-> IdleTask]
    /\ faults = 0
    /\ escalations = <<>>
    /\ llm_calls = <<>>
    /\ session = [p \in Pairs \cup KeyPairs |-> NewSession]
    /\ context = NoContext
    /\ turn = IdleTurn

\* The sets of operations, among ops, that may fail in one step of a
\* behaviour in which at most B store operations fail.
FaultSets(ops, B) == {F \in SUBSET ops : faults + Cardinality(F) <= B}

(* ------------------------ the hot regions, read ------------------------ *)

recentBuffer(u, c) == ListAt(redis, get_redis_key("chat_history", u, c))

shortTermWindow(u, c) == ListAt(redis, get_redis_key("short_term", u, c))

summary(u, c) == get(redis, get_redis_key("slider_summary", u, c))

messageCount(u, c) ==
    LET k == get_redis_key("message_count", u, c)
    IN  IF k \in DOMAIN redis THEN redis[k] ELSE 0

longTerm(u) == ListAt(redis, get_redis_key("long_term", u, ""))

(* ------------------------------ add_message ---------------------------- *)

\* process_conversation creates the human message, then the assistant's.
RoleAt(n) == IF n % 2 = 1 THEN "human" ELSE "assistant"

\* Message(role=..., content=...): the n-th message created.
NewMessage(n) ==
    [role |-> RoleAt(n), content |-> "m" \o ToString(n), timestamp |-> n]

\* Mutant of ChatLogEntry: the creation time is not recorded.
ChatLogEntryUntimed(u, c, message) ==
    [user_id |-> u, conversation_id |-> c, role |-> message.role,
     content |-> message.content, timestamp |-> 0]

ChatLogEntry(u, c, message) ==
    [user_id |-> u, conversation_id |-> c, role |-> message.role,
     content |-> message.content, timestamp |-> message.timestamp]

SliderTrigger == 4

LongTermTrigger == 8

\* Mutant of TrimStop: the trim keeps one entry too many.
TrimStopTooFar == 7 + 1

\* ltrim(chat_key, 0, 7)
TrimStop == 7

\* lrange(chat_key, 0, 7) of the long-term escalation
LongTermStop == 7

\* lrange(chat_key, 0, 3) of the short-term rebuild
ShortTermStop == 3

\* lrange(chat_key, 4, -1) of the slider summary
SliderStart == 4

\* How many of n pushes are done when the k-th one may fail.
Pushed(n, failing, k) == IF failing THEN Min(k - 1, n) ELSE n

\* Mutant of update_short_term_memory: the window is rebuilt without
\* reversing the entries read.
update_short_term_memory_unreversed(r, u, c, F, k) ==
    LET chat_key == get_redis_key("chat_history", u, c)
        short_key == get_redis_key("short_term", u, c)
        recent_messages == lrange(r, chat_key, 0, ShortTermStop)
    IN  rpush_all(delete(r, short_key), short_key, recent_messages)

\* Mutant of update_short_term_memory: the window is not cleared before it
\* is rebuilt.
update_short_term_memory_uncleared(r, u, c, F, k) ==
    LET chat_key == get_redis_key("chat_history", u, c)
        short_key == get_redis_key("short_term", u, c)
        recent_messages == lrange(r, chat_key, 0, ShortTermStop)
        todo == Reversed(recent_messages)
        done == Pushed(Len(todo), "short.rpush" \in F, k)
    IN  IF "short.lrange" \in F \/ "short.delete" \in F
        THEN r
        ELSE rpush_all(r, short_key, SubSeq(todo, 1, done))

\* _update_short_term_memory: every exception is logged and swallowed, so
\* the result is the store as the failing operation left it.
update_short_term_memory(r, u, c, F, k) ==
    LET chat_key == get_redis_key("chat_history", u, c)
        short_key == get_redis_key("short_term", u, c)
        recent_messages == lrange(r, chat_key, 0, ShortTermStop)
        todo == Reversed(recent_messages)
        done == Pushed(Len(todo), "short.rpush" \in F, k)
    IN  IF "short.lrange" \in F \/ "short.delete" \in F
        THEN r
        ELSE rpush_all(delete(r, short_key), short_key, SubSeq(todo, 1, done))

\* Mutant of SliderText: the newest 4 entries are read.
SliderTextOfWindow(r, u, c, F) ==
    IF "slider.lrange" \in F
    THEN <<>>
    ELSE ConversationText(lrange(r, get_redis_key("chat_history", u, c), 0, ShortTermStop))

\* Mutant of SliderText: the read starts one entry too early.
SliderTextFromThird(r, u, c, F) ==
    IF "slider.lrange" \in F
    THEN <<>>
    ELSE ConversationText(lrange(r, get_redis_key("chat_history", u, c), SliderStart - 1, -1))

\* The read of _generate_slider_summary: the lines of the buffer entries
\* older than the last 4, oldest first; none when the read fails.
SliderText(r, u, c, F) ==
    IF "slider.lrange" \in F
    THEN <<>>
    ELSE ConversationText(lrange(r, get_redis_key("chat_history", u, c), SliderStart, -1))

\* Mutant of LongTermText: the entries are not put oldest first.
LongTermTextNewestFirst(r, u, c, F) ==
    IF "long.lrange" \in F
    THEN <<>>
    ELSE Reversed(ConversationText(
             lrange(r, get_redis_key("chat_history", u, c), 0, LongTermStop)))

\* Mutant of LongTermText: only the entries of the window are read.
LongTermTextOfWindow(r, u, c, F) ==
    IF "long.lrange" \in F
    THEN <<>>
    ELSE ConversationText(lrange(r, get_redis_key("chat_history", u, c), 0, ShortTermStop))

\* The read of _generate_long_term_memory: the lines of the last 8 buffer
\* entries, oldest first; none when the read fails.
LongTermText(r, u, c, F) ==
    IF "long.lrange" \in F
    THEN <<>>
    ELSE ConversationText(lrange(r, get_redis_key("chat_history", u, c), 0, LongTermStop))

\* History: the escalation of the given kind is invoked by the ingestion of
\* task's message, which read back count.
Invocation(kind, task, count) ==
    [kind |-> kind, user_id |-> task.user_id,
     conversation_id |-> task.conversation_id,
     turn |-> task.message.timestamp, count |-> count]

\* History: llm.ainvoke is called with a prompt made of text; no reply yet.
LlmCall(kind, task, count, text) ==
    [kind |-> kind, user_id |-> task.user_id,
     conversation_id |-> task.conversation_id,
     turn |-> task.message.timestamp, count |-> count, text |-> text,
     reply |-> None]

\* What the history holds for a call that raised.
Raised == "<raised>"

\* History: the call of the given kind made for task's message is answered.
Replied(calls, kind, task, reply) ==
    [i \in 1..Len(calls) |->
        IF calls[i].kind = kind /\ calls[i].turn = task.message.timestamp
        THEN [calls[i] EXCEPT !.reply = reply]
        ELSE calls[i]]

\* Mutant of SliderDue: the long-term period is used for the summary.
SliderDueOnEighth(count) == count % LongTermTrigger = 0

\* Mutant of LongTermDue: the summary period is used for the extraction.
LongTermDueOnFourth(count) == count % SliderTrigger = 0

\* if count % 4 == 0
SliderDue(count) == count % SliderTrigger = 0

\* if count % 8 == 0
LongTermDue(count) == count % LongTermTrigger = 0

\* add_message returns to its caller; its locals are gone.
Return(t) == tasks' = [tasks EXCEPT ![t] = [IdleTask EXCEPT !.pc = "returned"]]

\* Mutant of Raise: the exception is logged and not raised again.
RaiseSwallowed(t, error) == Return(t)

\* except Exception: logger.error(...); raise
Raise(t, error) ==
    tasks' = [tasks EXCEPT ![t] = [IdleTask EXCEPT !.pc = "raised", !.error = error]]

\* add_message from the end of _generate_slider_summary on: step 6, up to
\* the Extractor call or the return.  r is the store at that point.
AfterSlider(t, r, count, F, esc, calls) ==
    LET task == tasks[t]
        text == LongTermText(r, task.user_id, task.conversation_id, F)
    IN  IF LongTermDue(count)
        THEN /\ escalations' = Append(esc, Invocation("long_term", task, count))
             /\ IF text = <<>>
                THEN /\ Return(t)
                     /\ llm_calls' = calls
                ELSE /\ tasks' = [tasks EXCEPT ![t].pc = "extracting",
                                               ![t].count = count, ![t].text = text]
                     /\ llm_calls' = Append(calls, LlmCall("extract", task, count, text))
        ELSE /\ escalations' = esc
             /\ llm_calls' = calls
             /\ Return(t)


\* add_message is called with message and awaits chat_history.insert_one
\* (step 1).
AddMessageWith(t, u, c, message, N, B) ==
    /\ tasks[t].pc \in Resting
    /\ clock < N
    /\ clock' = clock + 1
    /\ session' = [session EXCEPT ![<<u, c>>].phase =
                      IF @ = "restored" THEN "restored_ingest" ELSE "open"]
    /\ LET call == [IdleTask EXCEPT !.user_id = u, !.conversation_id = c,
                                    !.message = message]
       IN  \/ /\ chat_history' = Append(chat_history, ChatLogEntry(u, c, message))
              /\ tasks' = [tasks EXCEPT ![t] = [call EXCEPT !.pc = "hot"]]
              /\ faults' = faults
           \/ /\ faults < B
              /\ faults' = faults + 1
              /\ chat_history' = chat_history
              /\ Raise(t, "chat_history.insert_one")
    /\ context' = NoContext
    /\ UNCHANGED <<redis, short_term_memory, long_term_memory, escalations, llm_calls>>

\* add_message is called with the next message of the conversation.
AddMessage(t, u, c, N, B) == AddMessageWith(t, u, c, NewMessage(clock + 1), N, B)

HotOps == {"lpush", "ltrim", "short.lrange", "short.delete", "short.rpush",
           "incr", "slider.lrange", "long.lrange"}

\* The insert is acknowledged: steps 2 to 6 of add_message, up to its next
\* await (the Summarizer or the Extractor call) or its end.
AddMessageHot(t, B) ==
    /\ tasks[t].pc = "hot"
    /\ \E F \in FaultSets(HotOps, B), k \in 1..4 :
        /\ ("short.rpush" \notin F) => k = 1
        /\ faults' = faults + Cardinality(F)
        /\ LET task == tasks[t]
               u == task.user_id
               c == task.conversation_id
               msg_json == json_dumps(MsgData(task.message))
               chat_key == get_redis_key("chat_history", u, c)
               count_key == get_redis_key("message_count", u, c)
               r1 == lpush(redis, chat_key, msg_json)
               r2 == ltrim(r1, chat_key, 0, TrimStop)
               r3 == update_short_term_memory(r2, u, c, F, k)
               r4 == incr(r3, count_key)
               count == r4[count_key]
               text == SliderText(r4, u, c, F)
               todo == lrange(r2, chat_key, 0, ShortTermStop)
               \* the operations this step gets to, given those that fail
               reached ==
                   {"lpush"}
                   \cup (IF "lpush" \in F THEN {} ELSE {"ltrim"})
                   \cup (IF F \cap {"lpush", "ltrim"} # {} THEN {}
                         ELSE {"short.lrange", "incr"})
                   \cup (IF F \cap {"lpush", "ltrim", "short.lrange"} # {} THEN {}
                         ELSE {"short.delete"})
                   \cup (IF F \cap {"lpush", "ltrim", "short.lrange", "short.delete"} # {}
                            \/ k > Len(todo)
                         THEN {} ELSE {"short.rpush"})
                   \cup (IF F \cap {"lpush", "ltrim", "incr"} # {}
                            \/ ~SliderDue(count)
                         THEN {} ELSE {"slider.lrange"})
                   \cup (IF F \cap {"lpush", "ltrim", "incr"} # {}
                            \/ ~LongTermDue(count) \/ text # <<>>
                         THEN {} ELSE {"long.lrange"})
           IN  /\ F \subseteq reached
               /\ IF "lpush" \in F
                  THEN /\ Raise(t, "redis.lpush")
                       /\ UNCHANGED <<redis, escalations, llm_calls>>
                  ELSE IF "ltrim" \in F
                  THEN /\ Raise(t, "redis.ltrim")
                       /\ redis' = r1
                       /\ UNCHANGED <<escalations, llm_calls>>
                  ELSE IF "incr" \in F
                  THEN /\ Raise(t, "redis.incr")
                       /\ redis' = r3
                       /\ UNCHANGED <<escalations, llm_calls>>
                  ELSE /\ redis' = r4
                       /\ IF SliderDue(count)
                          THEN IF text # <<>>
                               THEN /\ tasks' = [tasks EXCEPT ![t].pc = "summarizing",
                                                    ![t].count = count, ![t].text = text]
                                    /\ escalations' =
                                         Append(escalations, Invocation("slider", task, count))
                                    /\ llm_calls' =
                                         Append(llm_calls, LlmCall("summarize", task, count, text))
                               ELSE AfterSlider(t, r4, count, F,
                                        Append(escalations, Invocation("slider", task, count)),
                                        llm_calls)
                          ELSE AfterSlider(t, r4, count, F, escalations, llm_calls)
    /\ UNCHANGED <<durable, clock, session, context>>

(* --------------------------- the collaborators ------------------------- *)

\* What the Summarizer may answer to a conversation text: a summary that
\* names what it was given, with the white space LLM replies come with, or
\* nothing but white space.
SummarizerReplies(text) == {" About <" \o JoinLines(text) \o ">\n", "  "}

\* Stands for the bullet character U+2022, which a module cannot spell.
Dot == "*"

BulletLine(i) ==
    (IF i % 2 = 1 THEN "- " ELSE " " \o Dot \o " ") \o "point " \o ToString(i) \o
    (IF i % 3 = 0 THEN " " ELSE "")

\* Lines that are not bullet-marked: a heading, and a dash with no space.
NoiseLines == <<"Key Points:", "-not a point">>

Bullets(k) == [i \in 1..k |-> BulletLine(i)]

\* lines, with line put in front of position j
InsertAt(lines, j, line) ==
    SubSeq(lines, 1, j - 1) \o <<line>> \o SubSeq(lines, j, Len(lines))

\* The replies with k bullet lines: alone, or with one unmarked line among
\* them.
ExtractorRepliesWith(k) ==
    {JoinLines(Bullets(k))}
    \cup {JoinLines(InsertAt(Bullets(k), Min(n, k + 1), NoiseLines[n])) : n \in 1..2}

\* What the Extractor may answer: 0 to MaxBullets bullet lines.
ExtractorReplies == UNION {ExtractorRepliesWith(k) : k \in 0..MaxBullets}

(* ----------------------- _generate_slider_summary ---------------------- *)

\* Mutant of StoreSummary: the new text is appended to the stored summary.
StoreSummaryAppending(r, u, c, content) ==
    set(r, get_redis_key("slider_summary", u, c),
        OrEmpty(get(r, get_redis_key("slider_summary", u, c))) \o Strip(content))

\* Mutant of StoreSummary: a summary that is there is not overwritten.
StoreSummaryIfAbsent(r, u, c, content) ==
    IF get(r, get_redis_key("slider_summary", u, c)) = None
    THEN set(r, get_redis_key("slider_summary", u, c), Strip(content))
    ELSE r

\* summary = response.content.strip(); redis.set(summary_key, summary)
StoreSummary(r, u, c, content) ==
    set(r, get_redis_key("slider_summary", u, c), Strip(content))

\* Mutant of SummarizerReturns: a call that raises clears the summary.
SummarizerReturnsClearing(t, B) ==
    /\ tasks[t].pc = "summarizing"
    /\ LET task == tasks[t]
           u == task.user_id
           c == task.conversation_id
       IN  \E F \in FaultSets({"set", "long.lrange"}, B) :
             /\ faults' = faults + Cardinality(F)
             /\ ("long.lrange" \in F) => LongTermDue(task.count)
             /\ \/ /\ "set" \notin F
                   /\ redis' = delete(redis, get_redis_key("slider_summary", u, c))
                   /\ AfterSlider(t, redis', task.count, F, escalations,
                                  Replied(llm_calls, "summarize", task, Raised))
                \/ \E content \in SummarizerReplies(task.text) :
                     LET r1 == IF "set" \in F THEN redis
                               ELSE StoreSummary(redis, u, c, content)
                     IN  /\ redis' = r1
                         /\ AfterSlider(t, r1, task.count, F, escalations,
                                        Replied(llm_calls, "summarize", task, content))
    /\ UNCHANGED <<durable, clock, session, context>>

\* llm.ainvoke of _generate_slider_summary returns or raises; the rest of
\* add_message up to the Extractor call or the return.
SummarizerReturns(t, B) ==
    /\ tasks[t].pc = "summarizing"
    /\ LET task == tasks[t]
           u == task.user_id
           c == task.conversation_id
       IN  \E F \in FaultSets({"set", "long.lrange"}, B) :
             /\ faults' = faults + Cardinality(F)
             /\ ("long.lrange" \in F) => LongTermDue(task.count)
             /\ \/ \* the call raises: logged, the summary is left as it is
                   /\ "set" \notin F
                   /\ redis' = redis
                   /\ AfterSlider(t, redis, task.count, F, escalations,
                                  Replied(llm_calls, "summarize", task, Raised))
                \/ \E content \in SummarizerReplies(task.text) :
                     LET r1 == IF "set" \in F THEN redis
                               ELSE StoreSummary(redis, u, c, content)
                     IN  /\ redis' = r1
                         /\ AfterSlider(t, r1, task.count, F, escalations,
                                        Replied(llm_calls, "summarize", task, content))
    /\ UNCHANGED <<durable, clock, session, context>>

(* ---------------------- _generate_long_term_memory --------------------- *)

PointsWanted == 5

\* The bullet-marked lines of the reply, without their marker.
BulletPoints(lines) ==
    LET marked(line) == StartsWith(line, "- ") \/ StartsWith(line, Dot \o " ")
        stripped == [i \in 1..Len(lines) |-> Strip(lines[i])]
    IN  [i \in 1..Len(SelectSeq(stripped, marked)) |->
            Strip(Sub(SelectSeq(stripped, marked)[i], 3,
                      Len(SelectSeq(stripped, marked)[i])))]

RECURSIVE Padded(_)
\* while len(points) < 5: points.append(f"Context point {len(points) + 1}")
Padded(points) ==
    IF Len(points) < PointsWanted
    THEN Padded(Append(points, "Context point " \o ToString(Len(points) + 1)))
    ELSE points

\* Mutant of ExtractPoints: too few points are not padded.
ExtractPointsUnpadded(content) ==
    Take(BulletPoints(SplitLines(Strip(content))), PointsWanted)

\* points, from the reply's content to points[:5]
ExtractPoints(content) ==
    Take(Padded(BulletPoints(SplitLines(Strip(content)))), PointsWanted)

\* Mutant of LongTermBatch: the batch lacks the last point.
LongTermBatchWithoutLast(task, points) ==
    [user_id |-> task.user_id, key_points |-> Take(points, Len(points) - 1),
     source_conversation_id |-> task.conversation_id]

\* long_term_doc of _generate_long_term_memory
LongTermBatch(task, points) ==
    [user_id |-> task.user_id, key_points |-> points,
     source_conversation_id |-> task.conversation_id]

\* Mutant of ExtractorReturns: a call that raises leaves 5 placeholder
\* points in the hot list.
ExtractorReturnsPlaceholders(t, B) ==
    /\ tasks[t].pc = "extracting"
    /\ LET task == tasks[t]
           long_term_key == get_redis_key("long_term", task.user_id, "")
       IN  \/ /\ Return(t)
              /\ llm_calls' = Replied(llm_calls, "extract", task, Raised)
              /\ redis' = rpush_all(redis, long_term_key, Padded(<<>>))
              /\ UNCHANGED faults
           \/ \E content \in ExtractorReplies, F \in FaultSets({"long.rpush"}, B),
                 k \in 1..PointsWanted :
                LET points == ExtractPoints(content)
                    done == Pushed(Len(points), "long.rpush" \in F, k)
                IN  /\ ("long.rpush" \notin F) => k = 1
                    /\ faults' = faults + Cardinality(F)
                    /\ redis' = rpush_all(redis, long_term_key, SubSeq(points, 1, done))
                    /\ llm_calls' = Replied(llm_calls, "extract", task, content)
                    /\ IF F = {}
                       THEN tasks' = [tasks EXCEPT ![t].pc = "batch_insert",
                                                   ![t].points = points]
                       ELSE Return(t)
    /\ UNCHANGED <<durable, clock, escalations, session, context>>

\* llm.ainvoke of _generate_long_term_memory returns or raises; the points
\* are pushed and long_term_memory.insert_one is awaited.
ExtractorReturns(t, B) ==
    /\ tasks[t].pc = "extracting"
    /\ LET task == tasks[t]
           long_term_key == get_redis_key("long_term", task.user_id, "")
       IN  \/ \* the call raises: logged, nothing is written
              /\ Return(t)
              /\ llm_calls' = Replied(llm_calls, "extract", task, Raised)
              /\ UNCHANGED <<redis, faults>>
           \/ \E content \in ExtractorReplies, F \in FaultSets({"long.rpush"}, B),
                 k \in 1..PointsWanted :
                LET points == ExtractPoints(content)
                    done == Pushed(Len(points), "long.rpush" \in F, k)
                IN  /\ ("long.rpush" \notin F) => k = 1
                    /\ faults' = faults + Cardinality(F)
                    /\ redis' = rpush_all(redis, long_term_key, SubSeq(points, 1, done))
                    /\ llm_calls' = Replied(llm_calls, "extract", task, content)
                    /\ IF F = {}
                       THEN tasks' = [tasks EXCEPT ![t].pc = "batch_insert",
                                                   ![t].points = points]
                       ELSE Return(t)
    /\ UNCHANGED <<durable, clock, escalations, session, context>>

\* long_term_memory.insert_one is acknowledged or raises (logged).
BatchInsert(t, B) ==
    /\ tasks[t].pc = "batch_insert"
    /\ Return(t)
    /\ \/ /\ long_term_memory' =
                Append(long_term_memory, LongTermBatch(tasks[t], tasks[t].points))
          /\ faults' = faults
       \/ /\ faults < B
          /\ faults' = faults + 1
          /\ long_term_memory' = long_term_memory
    /\ UNCHANGED <<redis, chat_history, short_term_memory, clock,
                   escalations, llm_calls, session, context>>

(* ------------------------- session transfer ---------------------------- *)

\* find_one on the snapshot collection: the document of (u, c) if there
\* is one, as a sequence of at most one document.
FindSnapshot(snapshots, u, c) ==
    IF <<u, c>> \in DOMAIN snapshots THEN <<snapshots[<<u, c>>]>> ELSE <<>>

\* update_one(..., {"$set": {...}}, upsert=True)
UpsertSnapshot(snapshots, u, c, doc) ==
    [p \in (DOMAIN snapshots) \cup {<<u, c>>} |->
        IF p = <<u, c>> THEN doc ELSE snapshots[p]]

\* Mutant of save_short_term_on_logout: the snapshot is written whatever
\* the regions hold.
save_short_term_on_logout_always(r, snapshots, u, c, F) ==
    LET short_key == get_redis_key("short_term", u, c)
        summary_key == get_redis_key("slider_summary", u, c)
        stored == lrange(r, short_key, 0, -1)
        messages == [i \in 1..Len(stored) |-> json_loads(stored[i])]
        slider_summary == OrEmpty(get(r, summary_key))
    IN  IF F \cap {"save.lrange", "save.get", "update_one"} # {}
        THEN snapshots
        ELSE UpsertSnapshot(snapshots, u, c,
                [messages |-> messages, slider_summary |-> slider_summary])

\* save_short_term_on_logout: the snapshot collection afterwards.  Every
\* exception is logged and swallowed.
save_short_term_on_logout(r, snapshots, u, c, F) ==
    LET short_key == get_redis_key("short_term", u, c)
        summary_key == get_redis_key("slider_summary", u, c)
        stored == lrange(r, short_key, 0, -1)
        messages == [i \in 1..Len(stored) |-> json_loads(stored[i])]
        slider_summary == OrEmpty(get(r, summary_key))
    IN  IF F \cap {"save.lrange", "save.get"} # {}
        THEN snapshots
        ELSE IF messages # <<>> \/ slider_summary # ""
        THEN IF "update_one" \in F
             THEN snapshots
             ELSE UpsertSnapshot(snapshots, u, c,
                     [messages |-> messages, slider_summary |-> slider_summary])
        ELSE snapshots

RECURSIVE delete_all(_, _)
\* for key in keys: redis.delete(key)
delete_all(r, keys) ==
    IF keys = <<>> THEN r ELSE delete_all(delete(r, Head(keys)), Tail(keys))

\* Mutant of KeysToClear: the user's long-term list is cleared too.
KeysToClearWithLongTerm(u, c) ==
    <<get_redis_key("short_term", u, c),
      get_redis_key("slider_summary", u, c),
      get_redis_key("chat_history", u, c),
      get_redis_key("message_count", u, c),
      get_redis_key("long_term", u, c)>>

\* Mutant of KeysToClear: the counter is not cleared.
KeysToClearWithoutCount(u, c) ==
    <<get_redis_key("short_term", u, c),
      get_redis_key("slider_summary", u, c),
      get_redis_key("chat_history", u, c)>>

\* Mutant of KeysToClear: the recent buffer is not cleared.
KeysToClearWithoutBuffer(u, c) ==
    <<get_redis_key("short_term", u, c),
      get_redis_key("slider_summary", u, c),
      get_redis_key("message_count", u, c)>>

\* keys_to_clear of clear_redis_on_logout, in its order
KeysToClear(u, c) ==
    <<get_redis_key("short_term", u, c),
      get_redis_key("slider_summary", u, c),
      get_redis_key("chat_history", u, c),
      get_redis_key("message_count", u, c)>>

\* clear_redis_on_logout: the store afterwards; a failing delete ends the
\* loop (logged and swallowed).
clear_redis_on_logout(r, u, c, F, k) ==
    LET keys == KeysToClear(u, c)
    IN  delete_all(r, SubSeq(keys, 1, Pushed(Len(keys), "clear.delete" \in F, k)))

\* Mutant of load_short_term_on_login: the summary is not restored.
load_short_term_on_login_no_summary(r, snapshots, u, c, F, k) ==
    LET found == FindSnapshot(snapshots, u, c)
        doc == found[1]
        short_key == get_redis_key("short_term", u, c)
        n == Len(doc.messages)
        done == Pushed(n, "login.rpush" \in F, k)
        restored == [i \in 1..done |-> json_dumps(doc.messages[i])]
    IN  IF "find_one" \in F \/ found = <<>> \/ "login.delete" \in F
        THEN r
        ELSE rpush_all(delete(r, short_key), short_key, restored)

\* Mutant of load_short_term_on_login: the summary is set whatever the
\* snapshot holds.
load_short_term_on_login_summary_always(r, snapshots, u, c, F, k) ==
    LET found == FindSnapshot(snapshots, u, c)
        doc == found[1]
        short_key == get_redis_key("short_term", u, c)
        summary_key == get_redis_key("slider_summary", u, c)
        n == Len(doc.messages)
        done == Pushed(n, "login.rpush" \in F, k)
        restored == [i \in 1..done |-> json_dumps(doc.messages[i])]
        r1 == rpush_all(delete(r, short_key), short_key, restored)
    IN  IF "find_one" \in F \/ found = <<>> \/ "login.delete" \in F
        THEN r
        ELSE IF done < n \/ "login.set" \in F
        THEN r1
        ELSE set(r1, summary_key, doc.slider_summary)

\* load_short_term_on_login: the store afterwards.  Every exception is
\* logged and swallowed.
load_short_term_on_login(r, snapshots, u, c, F, k) ==
    LET found == FindSnapshot(snapshots, u, c)
        doc == found[1]
        short_key == get_redis_key("short_term", u, c)
        summary_key == get_redis_key("slider_summary", u, c)
        n == Len(doc.messages)
        done == Pushed(n, "login.rpush" \in F, k)
        restored == [i \in 1..done |-> json_dumps(doc.messages[i])]
        r1 == rpush_all(delete(r, short_key), short_key, restored)
    IN  IF "find_one" \in F \/ found = <<>> \/ "login.delete" \in F
        THEN r
        ELSE IF done < n \/ doc.slider_summary = "" \/ "login.set" \in F
        THEN r1
        ELSE set(r1, summary_key, doc.slider_summary)

LogoutOps == {"save.lrange", "save.get", "update_one", "clear.delete"}

\* logout_endpoint: save_short_term_on_logout, then clear_redis_on_logout.
Logout(u, c, B) ==
    /\ \E F \in FaultSets(LogoutOps, B), k \in 1..4 :
        /\ ("clear.delete" \notin F) => k = 1
        /\ ("save.get" \in F) => "save.lrange" \notin F
        /\ ("update_one" \in F) =>
              /\ F \cap {"save.lrange", "save.get"} = {}
              /\ shortTermWindow(u, c) # <<>> \/ OrEmpty(summary(u, c)) # ""
        /\ faults' = faults + Cardinality(F)
        /\ short_term_memory' =
              save_short_term_on_logout(redis, short_term_memory, u, c, F)
        /\ redis' = clear_redis_on_logout(redis, u, c, F, k)
    /\ session' = [session EXCEPT ![<<u, c>>] =
                      [used |-> TRUE, phase |-> "logged_out",
                       short_term |-> shortTermWindow(u, c),
                       slider_summary |-> summary(u, c),
                       count |-> messageCount(u, c)]]
    /\ context' = NoContext
    /\ UNCHANGED <<chat_history, long_term_memory, clock, tasks,
                   escalations, llm_calls>>

\* The operations load_short_term_on_login gets to, given those that fail.
LoginReached(snapshots, u, c, F, k) ==
    LET found == FindSnapshot(snapshots, u, c)
        doc == found[1]
    IN  {"find_one"}
        \cup (IF "find_one" \in F \/ found = <<>> THEN {}
              ELSE {"login.delete"}
                   \cup (IF "login.delete" \in F \/ k > Len(doc.messages)
                         THEN {} ELSE {"login.rpush"})
                   \cup (IF F \cap {"login.delete", "login.rpush"} # {}
                            \/ doc.slider_summary = ""
                         THEN {} ELSE {"login.set"}))

LoginOps == {"find_one", "login.delete", "login.rpush", "login.set"}

\* login_endpoint: load_short_term_on_login.
Login(u, c, B) ==
    /\ \E F \in FaultSets(LoginOps, B), k \in 1..4 :
        /\ ("login.rpush" \notin F) => k = 1
        /\ F \subseteq LoginReached(short_term_memory, u, c, F, k)
        /\ faults' = faults + Cardinality(F)
        /\ redis' = load_short_term_on_login(redis, short_term_memory, u, c, F, k)
    /\ session' = [session EXCEPT ![<<u, c>>].used = TRUE,
                                  ![<<u, c>>].phase =
                                      IF @ = "logged_out" THEN "restored" ELSE "reloaded"]
    /\ context' = NoContext
    /\ UNCHANGED <<durable, clock, tasks, escalations, llm_calls>>

(* ------------------------ get_context_for_search ----------------------- *)

\* The context get_context_for_search starts from, and returns when any of
\* its reads raises.
EmptyContext ==
    [short_term_messages |-> <<>>, slider_summary |-> "",
     long_term_points |-> <<>>, recent_history |-> <<>>]

ContextOps == {"context.short_term", "context.get", "context.long_term",
               "context.chat_history"}

\* get_context_for_search: the context returned.  One try covers the four
\* reads: if any raises, the error is logged and the empty context returned.
get_context_for_search(r, u, c, F) ==
    LET short_messages == lrange(r, get_redis_key("short_term", u, c), 0, -1)
        recent_messages == lrange(r, get_redis_key("chat_history", u, c), 0, LongTermStop)
    IN  IF F # {}
        THEN EmptyContext
        ELSE [short_term_messages |->
                 [i \in 1..Len(short_messages) |-> json_loads(short_messages[i])],
              slider_summary |-> OrEmpty(get(r, get_redis_key("slider_summary", u, c))),
              long_term_points |-> lrange(r, get_redis_key("long_term", u, ""), 0, -1),
              recent_history |->
                 [i \in 1..Len(recent_messages) |->
                     json_loads(Reversed(recent_messages)[i])]]

\* get_memory_endpoint: get_context_for_search.
GetContext(u, c, B) ==
    /\ \E F \in FaultSets(ContextOps, B) :
        /\ Cardinality(F) <= 1
        /\ faults' = faults + Cardinality(F)
        /\ context' = <<[user_id |-> u, conversation_id |-> c,
                          memory_state |-> get_context_for_search(redis, u, c, F)]>>
    /\ UNCHANGED <<redis, durable, clock, tasks, escalations, llm_calls, session>>

(* ------------------------- process_conversation ----------------------- *)

\* Message(role=..., content=...), created as the n-th message
MessageOf(role, content, n) == [role |-> role, content |-> content, timestamp |-> n]

\* f"I apologize, but I encountered an error: {str(e)}"
ErrorMessage(e) == "I apologize, but I encountered an error: " \o e

\* What agent.ainvoke raises when it fails.
AgentError == "agent.ainvoke"

\* process_conversation is called: the user message is created and
\* add_message awaited.
ProcessConversation(u, c, N, B) ==
    /\ turn.pc \in {"idle", "replied"}
    /\ AddMessageWith(1, u, c, MessageOf("human", "m" \o ToString(clock + 1), clock + 1), N, B)
    /\ turn' = [IdleTurn EXCEPT !.pc = "human_add", !.user_id = u, !.conversation_id = c]

\* The add_message awaited by process_conversation goes on to its next await
\* or its end.
ProcessAddMessage(B) ==
    /\ turn.pc \in {"human_add", "assistant_add", "error_add"}
    /\ \/ AddMessageHot(1, B)
       \/ SummarizerReturns(1, B)
       \/ ExtractorReturns(1, B)
       \/ BatchInsert(1, B)
    /\ UNCHANGED turn

\* except Exception as e: the error message is created and its add_message
\* awaited, inside a try of its own.
ProcessError(e, N, B) ==
    /\ AddMessageWith(1, turn.user_id, turn.conversation_id,
                      MessageOf("assistant", ErrorMessage(e), clock + 1), N, B)
    /\ turn' = [turn EXCEPT !.pc = "error_add", !.cause = e]

\* The user message is added: agent.ainvoke is awaited.
ProcessAgent ==
    /\ turn.pc = "human_add"
    /\ tasks[1].pc = "returned"
    /\ turn' = [turn EXCEPT !.pc = "agent"]
    /\ UNCHANGED <<redis, durable, clock, tasks, faults, escalations, llm_calls,
                   session, context>>

\* agent.ainvoke returns its response, and the assistant message is created
\* and its add_message awaited; or it raises.
ProcessAgentReturns(N, B) ==
    /\ turn.pc = "agent"
    /\ \/ LET ai_response == "reply to m" \o ToString(clock)
          IN  /\ AddMessageWith(1, turn.user_id, turn.conversation_id,
                                MessageOf("assistant", ai_response, clock + 1), N, B)
              /\ turn' = [turn EXCEPT !.pc = "assistant_add", !.agent_ran = TRUE,
                                      !.current_response = ai_response]
       \/ ProcessError(AgentError, N, B)

\* add_message raised to process_conversation while the user or the
\* assistant message was added.
ProcessAddRaised(N, B) ==
    /\ turn.pc \in {"human_add", "assistant_add"}
    /\ tasks[1].pc = "raised"
    /\ ProcessError(tasks[1].error, N, B)

\* process_conversation returns: the response once the assistant message is
\* added, the error message once its add_message has returned or raised.
ProcessReturns ==
    /\ \/ /\ turn.pc = "assistant_add"
          /\ tasks[1].pc = "returned"
          /\ turn' = [turn EXCEPT !.pc = "replied", !.returned = turn.current_response]
       \/ /\ turn.pc = "error_add"
          /\ tasks[1].pc \in {"returned", "raised"}
          /\ turn' = [turn EXCEPT !.pc = "replied", !.returned = ErrorMessage(turn.cause)]
    /\ UNCHANGED <<redis, durable, clock, tasks, faults, escalations, llm_calls,
                   session, context>>

\* The chat turns of the pairs in P, one process_conversation at a time.
Processing(P, N, B) ==
    \/ \E p \in P : ProcessConversation(p[1], p[2], N, B)
    \/ ProcessAddMessage(B)
    \/ ProcessAgent
    \/ ProcessAgentReturns(N, B)
    \/ ProcessAddRaised(N, B)
    \/ ProcessReturns

(* --------------------------- specifications ---------------------------- *)

\* The steps of the chat turns of the pairs in P, one turn at a time: at
\* most N messages are created and at most B store operations fail.
Ingestion(P, N, B) ==
    \/ \E p \in P : AtRest /\ AddMessage(1, p[1], p[2], N, B) /\ UNCHANGED turn
    \/ AddMessageHot(1, B) /\ UNCHANGED turn
    \/ SummarizerReturns(1, B) /\ UNCHANGED turn
    \/ ExtractorReturns(1, B) /\ UNCHANGED turn
    \/ BatchInsert(1, B) /\ UNCHANGED turn

\* The login and logout requests of the pairs in P, served between turns.
Transfer(P, B) ==
    \/ \E p \in P : AtRest /\ Logout(p[1], p[2], B) /\ UNCHANGED turn
    \/ \E p \in P : AtRest /\ Login(p[1], p[2], B) /\ UNCHANGED turn

\* Sequential ingestion into a fresh conversation; both stores answer every
\* operation (the collaborator may still fail).
Next == Ingestion(One, MaxTurns, 0)

Spec == Init /\ [][Next]_vars

\* Chat turns, logins and logouts of one conversation, one request at a
\* time; both stores answer every operation.
NextSession == Ingestion(One, MaxSessionTurns, 0) \/ Transfer(One, 0)

SpecSession == Init /\ [][NextSession]_vars

\* The debug reads of the pairs in P, served between turns.
Reading(P, B) == \E p \in P : AtRest /\ GetContext(p[1], p[2], B) /\ UNCHANGED turn

\* Chat turns, logins, logouts and reads of one conversation, one request
\* at a time; both stores answer every operation.
NextRequests == NextSession \/ Reading(One, 0)

SpecRequests == Init /\ [][NextRequests]_vars

\* The pairs whose context is read: the conversation that is in use, and
\* another conversation of the same user that never is.
ReadPairs == {<<"u1", "c1">>, <<"u1", "c2">>}

\* Chat turns of one conversation and context reads, one request at a
\* time, in which store operations may fail.
NextReads == Ingestion(One, MaxReadTurns, MaxFaults) \/ Reading(ReadPairs, MaxFaults)

SpecReads == Init /\ [][NextReads]_vars

\* Sequential ingestion in which store operations may fail.
NextFaults == Ingestion(One, MaxFaultTurns, MaxFaults)

SpecFaults == Init /\ [][NextFaults]_vars

\* Chat turns, logins and logouts of one conversation, one request at a
\* time, in which store operations may fail.
NextSessionFaults ==
    Ingestion(One, MaxSessionFaultTurns, MaxFaults) \/ Transfer(One, MaxFaults)

SpecSessionFaults == Init /\ [][NextSessionFaults]_vars

\* Sequential ingestion into a conversation whose identifiers hold the key
\* separator; both stores answer every operation.
NextKeys == Ingestion(KeyOne, MaxKeyTurns, 0)

SpecKeys == Init /\ [][NextKeys]_vars

\* Chat turns of one conversation processed one at a time, in which store
\* operations and the agent may fail.
NextProcess == Processing(One, MaxProcessTurns, MaxFaults)

SpecProcess == Init /\ [][NextProcess]_vars

\* The steps of chat turns that overlap: every add_message coroutine runs
\* from one await to the next, in any order.  A new call takes the first
\* slot that is free.
Concurrent(P, N, B) ==
    \E t \in TaskIds :
        \/ /\ \A other \in TaskIds : other < t => tasks[other].pc \notin Resting
           /\ \E p \in P : AddMessage(t, p[1], p[2], N, B)
           /\ UNCHANGED turn
        \/ AddMessageHot(t, B) /\ UNCHANGED turn
        \/ SummarizerReturns(t, B) /\ UNCHANGED turn
        \/ ExtractorReturns(t, B) /\ UNCHANGED turn
        \/ BatchInsert(t, B) /\ UNCHANGED turn

\* Concurrent ingestion into one conversation; both stores answer every
\* operation.
NextConcurrent == Concurrent(One, MaxConcurrentTurns, 0)

SpecConcurrent == Init /\ [][NextConcurrent]_vars

\* The coroutine in slot t awaits llm.ainvoke.
AwaitsCollaborator(t) == tasks[t].pc \in {"summarizing", "extracting"}

\* Chat turns served one at a time, except that while the add_message of a
\* turn awaits a collaborator further turns are ingested, each to its end
\* or to its own collaborator call.
Overlap(P, N, B) ==
    \/ /\ AtRest
       /\ \E p \in P : AddMessage(1, p[1], p[2], N, B)
       /\ UNCHANGED turn
    \/ /\ AwaitsCollaborator(1)
       /\ tasks[2].pc \in Resting
       /\ \E p \in P : AddMessage(2, p[1], p[2], N, B)
       /\ UNCHANGED turn
    \/ \E t \in TaskIds :
          \/ AddMessageHot(t, B) /\ UNCHANGED turn
          \/ SummarizerReturns(t, B) /\ UNCHANGED turn
          \/ ExtractorReturns(t, B) /\ UNCHANGED turn
          \/ BatchInsert(t, B) /\ UNCHANGED turn

\* Ingestion into one conversation with turns overlapping the collaborator
\* calls; both stores answer every operation.
NextOverlap == Overlap(One, MaxOverlapTurns, 0)

SpecOverlap == Init /\ [][NextOverlap]_vars

(* ------------------------------ properties ----------------------------- *)

\* The turns ingested into (u, c): its chat-log entries, in insertion order.
PairLog(u, c) ==
    SelectSeq(chat_history,
              LAMBDA e : e.user_id = u /\ e.conversation_id = c)

\* The hot-store text of the turn a chat-log entry records.
TurnJson(e) ==
    <<"role", e.role, "content", e.content, "timestamp", "T" \o ToString(e.timestamp)>>

\* (u, c) is fresh but for the chat turns served to their end so far.
OnlyIngested(u, c) == AtRest /\ ~session[<<u, c>>].used

\* The last n turns of log, oldest first.
LastTurns(log, n) ==
    [i \in 1..Min(n, Len(log)) |-> TurnJson(log[Len(log) - Min(n, Len(log)) + i])]

\* C1: after N sequential ingestions into a fresh (user, conversation) with
\* no store failure, recentBuffer holds exactly the min(N, 8) most recently
\* ingested turns, newest first.
C1_RecentBufferHoldsLast8 ==
    \A p \in Pairs :
        OnlyIngested(p[1], p[2]) =>
            LET log == PairLog(p[1], p[2])
                buffer == recentBuffer(p[1], p[2])
            IN  /\ Len(buffer) = Min(Len(log), 8)
                /\ \A i \in 1..Len(buffer) : buffer[i] = TurnJson(log[Len(log) + 1 - i])

\* More than 8 turns were ingested and the buffer holds 8.
C1_Witness ==
    /\ OnlyIngested("u1", "c1")
    /\ Len(PairLog("u1", "c1")) = 11
    /\ Len(recentBuffer("u1", "c1")) = 8

\* C2: after every one of N sequential ingestions into a fresh conversation,
\* shortTermWindow is the 4 most recently ingested turns (all of them when
\* fewer than 4 were ingested), oldest first.
C2_ShortTermIsLast4 ==
    \A p \in Pairs :
        OnlyIngested(p[1], p[2]) =>
            shortTermWindow(p[1], p[2]) = LastTurns(PairLog(p[1], p[2]), 4)

\* Six turns were ingested and the window holds turns 3 to 6.
C2_Witness ==
    /\ OnlyIngested("u1", "c1")
    /\ Len(PairLog("u1", "c1")) = 6
    /\ Len(shortTermWindow("u1", "c1")) = 4
    /\ json_loads(shortTermWindow("u1", "c1")[1]).content = "m3"

\* C3: after N ingestions into a fresh conversation messageCount is exactly
\* N; so every ingested turn adds exactly one, and the count never skips a
\* value and never decreases.
C3_MessageCountIsN ==
    \A p \in Pairs :
        OnlyIngested(p[1], p[2]) =>
            messageCount(p[1], p[2]) = Len(PairLog(p[1], p[2]))

C3_Witness ==
    /\ OnlyIngested("u1", "c1")
    /\ Len(PairLog("u1", "c1")) = 9
    /\ messageCount("u1", "c1") = 9

\* The invocations of the given escalation by the ingestions of (u, c).
Invocations(kind, u, c) ==
    SelectSeq(escalations,
              LAMBDA e : e.kind = kind /\ e.user_id = u /\ e.conversation_id = c)

\* The escalation of the given kind was invoked by the ingestions whose
\* read-back count is a multiple of every, once each, and by no other.
InvokedEvery(kind, every, u, c) ==
    LET log == PairLog(u, c)
        invoked == Invocations(kind, u, c)
    IN  /\ Len(invoked) = Len(log) \div every
        /\ \A i \in 1..Len(invoked) :
              /\ invoked[i].count = every * i
              /\ invoked[i].turn = log[every * i].timestamp

\* C4: N sequential ingestions into a fresh conversation invoke the
\* slider-summary escalation exactly floor(N/4) times: the ingestions whose
\* read-back count is a multiple of 4 do, once each, and no other does.
C4_SliderEveryFourth ==
    \A p \in Pairs :
        OnlyIngested(p[1], p[2]) => InvokedEvery("slider", 4, p[1], p[2])

C4_Witness ==
    /\ OnlyIngested("u1", "c1")
    /\ Len(PairLog("u1", "c1")) = 13
    /\ Len(Invocations("slider", "u1", "c1")) = 3

\* C5: N sequential ingestions into a fresh conversation invoke the
\* long-term escalation exactly floor(N/8) times: the ingestions whose
\* read-back count is a multiple of 8 do, once each, and no other does.
C5_LongTermEveryEighth ==
    \A p \in Pairs :
        OnlyIngested(p[1], p[2]) => InvokedEvery("long_term", 8, p[1], p[2])

C5_Witness ==
    /\ OnlyIngested("u1", "c1")
    /\ Len(PairLog("u1", "c1")) = 16
    /\ Len(Invocations("long_term", "u1", "c1")) = 2

\* The Extractor calls made for user u that were answered, in order.
Answered(u) ==
    SelectSeq(llm_calls,
              LAMBDA call : /\ call.kind = "extract"
                            /\ call.user_id = u
                            /\ call.reply \notin {None, Raised})

\* The point lists produced for user u, in order: those of the durable
\* batches, and the one whose batch insert is awaited.
Produced(u) ==
    LET batches == SelectSeq(long_term_memory, LAMBDA b : b.user_id = u)
        awaited == SelectSeq([i \in 1..2 |-> tasks[i]],
                             LAMBDA task : task.pc = "batch_insert" /\ task.user_id = u)
    IN  [i \in 1..Len(batches) |-> batches[i].key_points]
        \o [i \in 1..Len(awaited) |-> awaited[i].points]

\* The number of bullet-marked lines of a reply.
BulletsIn(reply) == CHOOSE k \in 0..MaxBullets : reply \in ExtractorRepliesWith(k)

\* The 5 points the claim describes for a reply: its bullet-marked lines in
\* order, cut after the fifth, every missing position i holding
\* "Context point i".
FivePoints(reply) ==
    [i \in 1..5 |-> IF i <= BulletsIn(reply)
                    THEN "point " \o ToString(i)
                    ELSE "Context point " \o ToString(i)]

\* C6: whenever the Extractor call returns, whatever its text, the
\* long-term escalation produces exactly 5 points: the bullet-marked lines
\* in order, cut after the fifth, the missing positions filled with
\* placeholders; every durable batch holds exactly 5 points and the hot
\* longTerm list grows by exactly these 5.
C6_ExactlyFivePoints ==
    \A u \in Users :
        LET answered == Answered(u)
            produced == Produced(u)
            hot == longTerm(u)
        IN  /\ Len(produced) = Len(answered)
            /\ \A b \in 1..Len(long_term_memory) : Len(long_term_memory[b].key_points) = 5
            /\ Len(hot) = 5 * Len(answered)
            /\ \A i \in 1..Len(answered) :
                  /\ produced[i] = FivePoints(answered[i].reply)
                  /\ \A j \in 1..5 : hot[5 * (i - 1) + j] = produced[i][j]

\* Two batches: one padded from 2 bullet lines among other text, one cut
\* from 6 bullet lines.
C6_Witness ==
    /\ Len(long_term_memory) = 2
    /\ Len(Answered("u1")) = 2
    /\ BulletsIn(Answered("u1")[1].reply) = 2
    /\ Answered("u1")[1].reply # JoinLines(Bullets(2))
    /\ BulletsIn(Answered("u1")[2].reply) = 6
    /\ Len(longTerm("u1")) = 10

\* C7: if the durable chat-log append fails, the failure reaches the caller
\* of add_message and the ingestion ends there with no other effect: no hot
\* region and no durable collection changes and no escalation is invoked.
C7_AppendFailureAborts ==
    [][(clock' # clock /\ chat_history' = chat_history) =>
          /\ \E t \in TaskIds :
                /\ tasks[t].pc \in Resting
                /\ tasks'[t].pc = "raised"
                /\ tasks'[t].error = "chat_history.insert_one"
          /\ AtRest'
          /\ UNCHANGED <<redis, short_term_memory, long_term_memory,
                         escalations, llm_calls>>]_vars

\* The fourth message's append failed: three turns are recorded, hot and
\* durable.
C7_Witness ==
    /\ tasks[1].pc = "raised"
    /\ tasks[1].error = "chat_history.insert_one"
    /\ clock = 4
    /\ Len(PairLog("u1", "c1")) = 3
    /\ messageCount("u1", "c1") = 3

\* C8: a hot-store failure during ingest never reaches the caller of
\* add_message: the only failure a call ends with is that of the chat-log
\* append.
C8_HotFailureSwallowed ==
    \A t \in TaskIds :
        tasks[t].pc = "raised" => tasks[t].error = "chat_history.insert_one"

\* The text read from the summary region (absent reads as empty).
summaryText(u, c) == OrEmpty(summary(u, c))

\* C9: a logout followed by a login leaves shortTermWindow and summary
\* exactly as they were immediately before that logout.
C9_LoginRestoresLogoutState ==
    \A p \in Pairs :
        session[p].phase = "restored" =>
            /\ shortTermWindow(p[1], p[2]) = session[p].short_term
            /\ summaryText(p[1], p[2]) = OrEmpty(session[p].slider_summary)

\* C9, amended: a logout at which shortTermWindow or summary is not empty,
\* followed by a login, leaves both exactly as they were immediately before
\* that logout (no store operation failing).
C9_LoginRestoresNonEmptyLogoutState ==
    \A p \in Pairs :
        (/\ session[p].phase = "restored"
         /\ \/ session[p].short_term # <<>>
            \/ OrEmpty(session[p].slider_summary) # "") =>
            /\ shortTermWindow(p[1], p[2]) = session[p].short_term
            /\ summaryText(p[1], p[2]) = OrEmpty(session[p].slider_summary)

\* A window of 4 turns and a summary were restored.
C9_Witness ==
    /\ session[<<"u1", "c1">>].phase = "restored"
    /\ Len(session[<<"u1", "c1">>].short_term) = 4
    /\ OrEmpty(session[<<"u1", "c1">>].slider_summary) # ""
    /\ summaryText("u1", "c1") # ""

\* The three regions login and logout are said to leave alone.
Untouched(u, c) == <<recentBuffer(u, c), messageCount(u, c), longTerm(u)>>

\* C10: neither login nor logout changes recentBuffer, messageCount or
\* longTerm.
C10_SessionOpsLeaveRegions ==
    [][\A p \in Pairs :
          (AtRest /\ (Login(p[1], p[2], 0) \/ Logout(p[1], p[2], 0))) =>
              Untouched(p[1], p[2])' = Untouched(p[1], p[2])]_vars

\* C10, amended: login changes none of recentBuffer, messageCount and
\* longTerm; logout leaves longTerm as it is, and empties recentBuffer and
\* removes messageCount.
C10_LoginLeavesRegionsLogoutLongTerm ==
    [][\A p \in Pairs :
          /\ (AtRest /\ Login(p[1], p[2], 0)) =>
                Untouched(p[1], p[2])' = Untouched(p[1], p[2])
          /\ (AtRest /\ Logout(p[1], p[2], 0)) =>
                /\ longTerm(p[1])' = longTerm(p[1])
                /\ recentBuffer(p[1], p[2])' = <<>>
                /\ messageCount(p[1], p[2])' = 0]_vars

\* A logout has emptied a buffer of 8 turns while the long-term list holds
\* points.
C10_Witness ==
    /\ session[<<"u1", "c1">>].phase = "logged_out"
    /\ Len(session[<<"u1", "c1">>].short_term) = 4
    /\ recentBuffer("u1", "c1") = <<>>
    /\ messageCount("u1", "c1") = 0
    /\ Len(longTerm("u1")) = 5
    /\ Len(PairLog("u1", "c1")) = 8

\* The keys of the four hot regions of a (user, conversation).
PairKeys(u, c) ==
    {get_redis_key(key_type, u, c) :
        key_type \in {"chat_history", "short_term", "slider_summary", "message_count"}}

\* The store holds none of the four regions of (u, c).
PairCleared(r, u, c) == PairKeys(u, c) \cap DOMAIN r = {}

\* C11: a logout of (user, conversation) deletes exactly the four hot
\* regions recentBuffer, shortTermWindow, summary and messageCount of that
\* pair: every other key of the hot store, the user's longTerm list among
\* them, and the durable chat log and long-term batches stay as they were.
C11_LogoutDeletesFourRegions ==
    [][\A p \in Pairs :
          (AtRest /\ Logout(p[1], p[2], 0)) =>
              /\ PairCleared(redis', p[1], p[2])
              /\ DOMAIN redis' = DOMAIN redis \ PairKeys(p[1], p[2])
              /\ \A key \in DOMAIN redis' : redis'[key] = redis[key]
              /\ longTerm(p[1])' = longTerm(p[1])
              /\ UNCHANGED <<chat_history, long_term_memory>>]_vars

\* A logout after 8 turns has deleted all four regions, each of which held something,
\* and the long-term list and its batch are still there.
C11_Witness ==
    LET s == session[<<"u1", "c1">>]
    IN  /\ s.phase = "logged_out"
        /\ Len(s.short_term) = 4
        /\ OrEmpty(s.slider_summary) # ""
        /\ s.count = 8
        /\ PairCleared(redis, "u1", "c1")
        /\ Len(longTerm("u1")) = 5
        /\ Len(long_term_memory) = 1
        /\ Len(chat_history) = 8

\* C12: a logout performed when shortTermWindow is empty and summary is
\* empty writes nothing to the snapshot collection, and still deletes the
\* hot keys of the conversation (no operation of the logout failing).
C12_EmptyLogoutWritesNoSnapshot ==
    [][\A p \in Pairs :
          (/\ AtRest
           /\ Logout(p[1], p[2], MaxFaults)
           /\ shortTermWindow(p[1], p[2]) = <<>>
           /\ OrEmpty(summary(p[1], p[2])) = "") =>
              /\ short_term_memory' = short_term_memory
              /\ (faults' = faults) => PairCleared(redis', p[1], p[2])]_vars

\* An earlier logout wrote a snapshot; the window was then lost to a failed
\* rebuild, and the next logout found it empty with the buffer and the
\* counter set: the snapshot row is the old one and the hot keys are gone.
C12_Witness ==
    LET s == session[<<"u1", "c1">>]
    IN  /\ s.phase = "logged_out"
        /\ s.short_term = <<>>
        /\ OrEmpty(s.slider_summary) = ""
        /\ s.count > 0
        /\ <<"u1", "c1">> \in DOMAIN short_term_memory
        /\ short_term_memory[<<"u1", "c1">>].messages # <<>>
        /\ PairCleared(redis, "u1", "c1")

\* The `role: content` lines of turns a to b of a chat log.
TurnLines(log, a, b) ==
    [i \in 1..(b - a + 1) |-> log[a + i - 1].role \o ": " \o log[a + i - 1].content]

\* The collaborator calls of the given kind made for (u, c), in order.
Calls(kind, u, c) ==
    SelectSeq(llm_calls,
              LAMBDA call : /\ call.kind = kind
                            /\ call.user_id = u
                            /\ call.conversation_id = c)

\* After 8 turns into a fresh conversation there was one Summarizer call,
\* given turns a to b.
OneSummaryOfTurns(a, b) ==
    \A p \in Pairs :
        (OnlyIngested(p[1], p[2]) /\ Len(PairLog(p[1], p[2])) = 8) =>
            /\ Len(Calls("summarize", p[1], p[2])) = 1
            /\ Calls("summarize", p[1], p[2])[1].text = TurnLines(PairLog(p[1], p[2]), a, b)

\* C13: ingesting 8 turns into a fresh conversation results in exactly one
\* Summarizer call, and its input is turns 5 to 8.
C13_OneSummaryOfTurns5To8 == OneSummaryOfTurns(5, 8)

\* C13, amended: ingesting 8 turns into a fresh conversation results in
\* exactly one Summarizer call (the escalation at count 4 finds nothing older
\* than the window), and its input is turns 1 to 4, the turns older than the
\* short-term window.
C13_OneSummaryOfTurns1To4 == OneSummaryOfTurns(1, 4)

\* 8 turns are ingested and the Summarizer has answered its one call.
C13_Witness ==
    /\ OnlyIngested("u1", "c1")
    /\ Len(PairLog("u1", "c1")) = 8
    /\ Len(Calls("summarize", "u1", "c1")) = 1
    /\ Calls("summarize", "u1", "c1")[1].reply \notin {None, Raised}
    /\ Calls("summarize", "u1", "c1")[1].count = 8

\* C14: in sequential ingestion the long-term escalation triggered at count
\* n, a multiple of 8, passes to the Extractor exactly turns n-7..n, oldest
\* first, as `role: content` lines; N ingested turns make floor(N/8) calls,
\* so 8 turns make exactly one, of turns 1 to 8.
C14_ExtractorGetsLast8 ==
    \A p \in Pairs :
        LET log == PairLog(p[1], p[2])
            calls == Calls("extract", p[1], p[2])
        IN  /\ \A i \in 1..Len(calls) :
                  /\ calls[i].count = 8 * i
                  /\ calls[i].text = TurnLines(log, 8 * i - 7, 8 * i)
            /\ OnlyIngested(p[1], p[2]) => Len(calls) = Len(log) \div 8

\* 16 turns are ingested: the second call was given turns 9 to 16.
C14_Witness ==
    /\ OnlyIngested("u1", "c1")
    /\ Len(PairLog("u1", "c1")) = 16
    /\ Len(Calls("extract", "u1", "c1")) = 2
    /\ Calls("extract", "u1", "c1")[2].text[1] = "human: m9"
    /\ Calls("extract", "u1", "c1")[2].text[8] = "assistant: m16"

\* The chat log holds one entry per message created, in creation order.
LogComplete ==
    /\ Len(chat_history) = clock
    /\ \A i \in 1..Len(chat_history) :
          /\ chat_history[i].timestamp = i
          /\ chat_history[i].content = "m" \o ToString(i)

\* C15: the durable chat log is append-only and complete: each successful
\* ingest appends exactly one entry, for its turn; no step of an ingest, an
\* escalation, a login, a logout or a context read changes or removes an
\* entry; after N sequential ingestions the log holds N entries in order.
C15_ChatLogAppendOnly ==
    [][/\ (clock' # clock) =>
             \E t \in TaskIds :
                /\ tasks'[t].pc = "hot"
                /\ chat_history' =
                      Append(chat_history,
                             [user_id |-> tasks'[t].user_id,
                              conversation_id |-> tasks'[t].conversation_id,
                              role |-> tasks'[t].message.role,
                              content |-> tasks'[t].message.content,
                              timestamp |-> tasks'[t].message.timestamp])
       /\ (clock' = clock) => chat_history' = chat_history
       /\ LogComplete']_vars

\* 9 turns were ingested across a logout, a login and a context read.
C15_Witness ==
    /\ Len(chat_history) = 9
    /\ session[<<"u1", "c1">>].phase = "restored_ingest"
    /\ Len(long_term_memory) = 1
    /\ context # NoContext

\* In this step the collaborator call of the given kind made for (u, c)
\* raises.
CallRaises(kind, u, c) ==
    \E i \in 1..Len(llm_calls) :
        /\ llm_calls[i].kind = kind
        /\ llm_calls[i].user_id = u
        /\ llm_calls[i].conversation_id = c
        /\ llm_calls[i].reply = None
        /\ llm_calls'[i].reply = Raised

\* C16: if the Summarizer call fails, the summary region keeps the value it
\* had (absent stays absent) and the ingestion goes on normally: the counter
\* stays incremented and no error reaches the caller of add_message.
C16_SummarizerFailureKeepsSummary ==
    [][\A p \in Pairs :
          CallRaises("summarize", p[1], p[2]) =>
              /\ summary(p[1], p[2])' = summary(p[1], p[2])
              /\ messageCount(p[1], p[2])' = messageCount(p[1], p[2])
              /\ \A t \in TaskIds :
                    tasks[t].pc = "summarizing" =>
                        /\ tasks'[t].pc \in {"returned", "extracting"}
                        /\ messageCount(p[1], p[2])' = tasks[t].count
                        /\ tasks[t].count > 0]_vars

\* The second Summarizer call raised and the ingestion returned: the
\* summary is still what the first call gave, and 12 turns are counted.
C16_Witness ==
    LET calls == Calls("summarize", "u1", "c1")
    IN  /\ AtRest
        /\ tasks[1].pc = "returned"
        /\ Len(calls) = 2
        /\ calls[1].reply \notin {None, Raised}
        /\ calls[2].reply = Raised
        /\ summaryText("u1", "c1") # ""
        /\ summary("u1", "c1") = Strip(calls[1].reply)
        /\ messageCount("u1", "c1") = 12

\* C17: if the Extractor call itself fails, nothing is mutated: the hot
\* store (the longTerm list in it) and the durable long-term batches are as
\* they were, no placeholder is written, and the ingestion returns normally.
C17_ExtractorFailureMutatesNothing ==
    [][\A p \in Pairs :
          CallRaises("extract", p[1], p[2]) =>
              /\ longTerm(p[1])' = longTerm(p[1])
              /\ UNCHANGED <<redis, durable>>
              /\ \A t \in TaskIds :
                    tasks[t].pc = "extracting" => tasks'[t].pc = "returned"]_vars

\* The second Extractor call raised: the list and the batches are those of
\* the first call.
C17_Witness ==
    LET calls == Calls("extract", "u1", "c1")
    IN  /\ AtRest
        /\ tasks[1].pc = "returned"
        /\ Len(calls) = 2
        /\ calls[1].reply \notin {None, Raised}
        /\ calls[2].reply = Raised
        /\ Len(longTerm("u1")) = 5
        /\ Len(long_term_memory) = 1
        /\ messageCount("u1", "c1") = 16

\* No two invocations of the given escalation for (u, c) were triggered by
\* the same count, and every triggering count is a multiple of every.
OncePerMultiple(kind, every, u, c) ==
    LET invoked == Invocations(kind, u, c)
    IN  \A i \in 1..Len(invoked) :
            /\ invoked[i].count % every = 0
            /\ \A j \in 1..Len(invoked) :
                  invoked[i].count = invoked[j].count => i = j

\* C18: in any interleaving of concurrent ingestions into the same
\* (user, conversation) every ingestion reads back a distinct count (each
\* increment gives the previous count plus one), so for each multiple of 4,
\* respectively 8, at most one ingestion invokes the slider-summary,
\* respectively long-term, escalation.
C18_DistinctCounts ==
    [][\A p \in Pairs :
          /\ messageCount(p[1], p[2])' \in
                {messageCount(p[1], p[2]), messageCount(p[1], p[2]) + 1}
          /\ \A t \in TaskIds :
                (/\ tasks[t].pc = "hot"
                 /\ <<tasks[t].user_id, tasks[t].conversation_id>> = p
                 /\ tasks'[t].pc \in {"summarizing", "extracting"}) =>
                    /\ tasks'[t].count = messageCount(p[1], p[2])'
                    /\ messageCount(p[1], p[2])' = messageCount(p[1], p[2]) + 1
          /\ OncePerMultiple("slider", 4, p[1], p[2])'
          /\ OncePerMultiple("long_term", 8, p[1], p[2])']_vars

\* Ingestions overlapped, and the counts were read in another order than
\* the messages were created: turn 3 read back 4, turn 7 read back 8 and
\* awaits the Summarizer while turn 8 has returned.
C18_Witness ==
    LET invoked == Invocations("slider", "u1", "c1")
    IN  /\ Len(invoked) = 2
        /\ invoked[1].count = 4 /\ invoked[1].turn = 3
        /\ invoked[2].count = 8 /\ invoked[2].turn = 7
        /\ tasks[1].pc = "summarizing"
        /\ tasks[2].pc = "returned"
        /\ messageCount("u1", "c1") = 8

\* C19: len(recentBuffer) <= 8 in every reachable state of every
\* (user, conversation), also after an ingestion that aborted on a hot-store
\* failure.
C19_RecentBufferAtMost8 ==
    \A p \in Pairs : Len(recentBuffer(p[1], p[2])) <= 8

\* shortTermWindow is the up-to-4 newest entries of recentBuffer, oldest
\* first.
WindowOfBuffer(u, c) ==
    shortTermWindow(u, c) = Reversed(Take(recentBuffer(u, c), 4))

\* C20: in every state at rest, after any sequence of ingest, login and
\* logout, shortTermWindow is the up-to-4 newest entries of recentBuffer,
\* oldest first.
C20_WindowDerivedFromBuffer ==
    AtRest => \A p \in Pairs : WindowOfBuffer(p[1], p[2])

\* C20, amended: in every state at rest in which the last request for the
\* pair was an ingest or a logout, shortTermWindow is the up-to-4 newest
\* entries of recentBuffer, oldest first; a login sets shortTermWindow from
\* the snapshot and leaves recentBuffer as it is.
C20_WindowDerivedUnlessLogin ==
    AtRest => \A p \in Pairs :
                 session[p].phase \notin {"restored", "reloaded"} =>
                     WindowOfBuffer(p[1], p[2])

\* A login restored 4 turns and one more was ingested: the window is that
\* one turn, the buffer's only entry.
C20_Witness ==
    /\ AtRest
    /\ session[<<"u1", "c1">>].phase = "restored_ingest"
    /\ Len(session[<<"u1", "c1">>].short_term) = 4
    /\ Len(recentBuffer("u1", "c1")) = 1
    /\ Len(shortTermWindow("u1", "c1")) = 1

\* What the four regions read by get_context_for_search hold for (u, c),
\* as the fields of a context.
StoredContext(u, c) ==
    [short_term_messages |->
        [i \in 1..Len(shortTermWindow(u, c)) |->
            [role |-> shortTermWindow(u, c)[i][2],
             content |-> shortTermWindow(u, c)[i][4],
             timestamp |-> shortTermWindow(u, c)[i][6]]],
     slider_summary |-> summaryText(u, c),
     long_term_points |-> longTerm(u),
     recent_history |->
        [i \in 1..Len(recentBuffer(u, c)) |->
            [role |-> Reversed(recentBuffer(u, c))[i][2],
             content |-> Reversed(recentBuffer(u, c))[i][4],
             timestamp |-> Reversed(recentBuffer(u, c))[i][6]]]]

ContextFields ==
    {"short_term_messages", "slider_summary", "long_term_points", "recent_history"}

\* The fields of the context last returned that differ from what is stored.
DegradedFields ==
    {f \in ContextFields :
        context[1].memory_state[f] #
            StoredContext(context[1].user_id, context[1].conversation_id)[f]}

\* C21: if reading one hot region fails during get_context_for_search, the
\* call returns that region's field at its empty default and the fields of
\* the other regions with their stored contents: at most one field of a
\* returned context differs from what is stored, and that one is empty.
C21_OneFieldDegrades ==
    context # NoContext =>
        /\ Cardinality(DegradedFields) <= 1
        /\ \A f \in DegradedFields :
              context[1].memory_state[f] = EmptyContext[f]

\* C22: when a memory-subsystem error other than a chat-log append failure
\* occurs while a chat turn is processed, process_conversation absorbs it:
\* the agent is run and its reply is what is returned, not an error message.
C22_MemoryErrorsAbsorbed ==
    (turn.pc = "replied" /\ turn.cause \notin {"", AgentError, "chat_history.insert_one"}) =>
        /\ turn.agent_ran
        /\ turn.returned = turn.current_response

\* The hot-store entries of the messages of a snapshot document.
SnapshotEntries(doc) ==
    [i \in 1..Len(doc.messages) |->
        <<"role", doc.messages[i].role, "content", doc.messages[i].content,
          "timestamp", doc.messages[i].timestamp>>]

\* C23: login never changes recentBuffer, messageCount or longTerm, nor any
\* durable collection; with no snapshot row for the pair it changes nothing
\* at all; with one it replaces shortTermWindow by the snapshot's messages,
\* sets summary only if the snapshot's summary is not empty, and changes no
\* other key.
C23_LoginFrame ==
    [][\A p \in Pairs :
          (AtRest /\ Login(p[1], p[2], 0)) =>
              /\ Untouched(p[1], p[2])' = Untouched(p[1], p[2])
              /\ UNCHANGED durable
              /\ IF p \notin DOMAIN short_term_memory
                 THEN redis' = redis
                 ELSE /\ shortTermWindow(p[1], p[2])' = SnapshotEntries(short_term_memory[p])
                      /\ summary(p[1], p[2])' =
                            IF short_term_memory[p].slider_summary # ""
                            THEN short_term_memory[p].slider_summary
                            ELSE summary(p[1], p[2])
                      /\ \A key \in (DOMAIN redis \cup DOMAIN redis') \
                                    {get_redis_key("short_term", p[1], p[2]),
                                     get_redis_key("slider_summary", p[1], p[2])} :
                            /\ key \in DOMAIN redis \cap DOMAIN redis'
                            /\ redis'[key] = redis[key]]_vars

\* A login in the middle of a session: the snapshot of an earlier logout
\* has one turn and no summary; the window is now that turn, and the summary
\* and the buffer of 8 turns are those of the session.
C23_Witness ==
    /\ session[<<"u1", "c1">>].phase = "reloaded"
    /\ <<"u1", "c1">> \in DOMAIN short_term_memory
    /\ short_term_memory[<<"u1", "c1">>].slider_summary = ""
    /\ Len(shortTermWindow("u1", "c1")) = 1
    /\ summaryText("u1", "c1") # ""
    /\ Len(recentBuffer("u1", "c1")) = 8
    /\ messageCount("u1", "c1") = 8

\* The logical regions of the identifiers in KeyUsers and KeyConvs: the
\* four kinds kept per (user, conversation), and longTerm kept per user.
KeyRegions ==
    ({"short_term", "slider_summary", "chat_history", "message_count"}
        \X KeyUsers \X KeyConvs)
    \cup {<<"long_term", u, "">> : u \in KeyUsers}

\* C24: the mapping from regions to hot-store keys is injective for
\* arbitrary string identifiers: two different regions never have the same
\* key, so a pair nothing was ingested into has nothing in its regions.
C24_KeysInjective ==
    /\ \A a, b \in KeyRegions :
          a # b => get_redis_key(a[1], a[2], a[3]) # get_redis_key(b[1], b[2], b[3])
    /\ \A p \in KeyPairs :
          PairLog(p[1], p[2]) = <<>> => recentBuffer(p[1], p[2]) = <<>>

\* Nothing was ingested into the pair and it saw neither login nor logout.
NeverUsed(u, c) == PairLog(u, c) = <<>> /\ ~session[<<u, c>>].used

\* C25: get_context_for_search on a (user, conversation) that was never
\* used returns the empty context: no short-term message, the empty
\* summary, no long-term point and no recent history.
C25_NeverUsedContextEmpty ==
    (/\ context # NoContext
     /\ NeverUsed(context[1].user_id, context[1].conversation_id)) =>
        context[1].memory_state = EmptyContext

\* C25 (amended): get_context_for_search on a never-used pair returns no
\* short-term message, the empty summary and no recent history; its
\* long-term points are the user's longTerm list, which holds the points
\* extracted from the user's other conversations (when a read fails, the
\* empty context is returned).  The hot store and the collections are left
\* as they are.
C25_NeverUsedContextHasUserPoints ==
    [][\A p \in ReadPairs :
          (AtRest /\ NeverUsed(p[1], p[2]) /\ GetContext(p[1], p[2], MaxFaults)) =>
              /\ context'[1].memory_state \in
                    {[EmptyContext EXCEPT !.long_term_points = longTerm(p[1])],
                     EmptyContext}
              /\ faults' = faults =>
                    context'[1].memory_state.long_term_points = longTerm(p[1])
              /\ UNCHANGED <<redis, durable>>]_vars

C25_Witness ==
    /\ context # NoContext
    /\ NeverUsed(context[1].user_id, context[1].conversation_id)
    /\ context[1].memory_state.short_term_messages = <<>>
    /\ context[1].memory_state.recent_history = <<>>
    /\ Len(context[1].memory_state.long_term_points) = PointsWanted

\* The `role: content` line of a hot-store entry.
LineOf(entry) == entry[2] \o ": " \o entry[4]

\* The input of every Summarizer call in flight is made of the buffer
\* entries at offsets 4..end, oldest first, and of no entry of the window.
SummarizerInputIsOlder ==
    \A t \in TaskIds :
        tasks[t].pc = "summarizing" =>
            LET buffer == recentBuffer(tasks[t].user_id, tasks[t].conversation_id)
                window == shortTermWindow(tasks[t].user_id, tasks[t].conversation_id)
                text == tasks[t].text
            IN  /\ Len(text) = Len(buffer) - SliderStart
                /\ \A i \in 1..Len(text) :
                      /\ text[i] = LineOf(buffer[Len(buffer) - i + 1])
                      /\ \A j \in 1..Len(window) : text[i] # LineOf(window[j])
                /\ \E i \in 1..Len(llm_calls) :
                      /\ llm_calls[i].kind = "summarize"
                      /\ llm_calls[i].reply = None
                      /\ llm_calls[i].text = text

\* C26: the input given to the Summarizer consists only of the recentBuffer
\* entries at offsets 4..end, oldest first, so of no turn of the current
\* shortTermWindow; when the call succeeds the summary becomes the returned
\* text, stripped, whatever the summary was before.
C26_SummaryOfOlderReplaces ==
    [][/\ SummarizerInputIsOlder'
       /\ \A i \in 1..Len(llm_calls) :
             (/\ llm_calls[i].kind = "summarize"
              /\ llm_calls[i].reply = None
              /\ llm_calls'[i].reply \notin {None, Raised}) =>
                 summaryText(llm_calls[i].user_id, llm_calls[i].conversation_id)' =
                     Strip(llm_calls'[i].reply)]_vars

\* The Summarizer has answered two calls with different texts, the first of
\* them not empty, and the summary is the second text alone.
C26_Witness ==
    LET calls == Calls("summarize", "u1", "c1")
    IN  /\ AtRest
        /\ Len(calls) = 2
        /\ calls[1].reply \notin {None, Raised}
        /\ calls[2].reply \notin {None, Raised}
        /\ Strip(calls[1].reply) # ""
        /\ Len(calls[2].text) = 4
        /\ summaryText("u1", "c1") = Strip(calls[2].reply)
        /\ summaryText("u1", "c1") # Strip(calls[1].reply)

\* C27: in a fresh conversation the slider-summary escalation invoked at
\* count 4 finds nothing at offsets 4..end and does nothing: no Summarizer
\* call is made for it and the summary stays absent until the ingestion
\* with count 8; N sequential ingestions make max(0, floor(N/4) - 1)
\* Summarizer calls, those of the counts 8, 12, ...
C27_NoSummaryAtCount4 ==
    \A p \in Pairs :
        LET calls == Calls("summarize", p[1], p[2])
            N == Len(PairLog(p[1], p[2]))
        IN  /\ \A i \in 1..Len(calls) : calls[i].count = SliderTrigger * (i + 1)
            /\ (~session[p].used /\ messageCount(p[1], p[2]) < 2 * SliderTrigger) =>
                  summary(p[1], p[2]) = None
            /\ OnlyIngested(p[1], p[2]) =>
                  /\ Len(calls) = Max(0, (N \div SliderTrigger) - 1)
                  /\ Len(Invocations("slider", p[1], p[2])) = N \div SliderTrigger

\* Seven turns are ingested: the escalation was invoked once, at count 4,
\* no Summarizer call was made and there is no summary.
C27_Witness ==
    /\ OnlyIngested("u1", "c1")
    /\ Len(PairLog("u1", "c1")) = 7
    /\ Len(Invocations("slider", "u1", "c1")) = 1
    /\ Invocations("slider", "u1", "c1")[1].count = SliderTrigger
    /\ Calls("summarize", "u1", "c1") = <<>>
    /\ summary("u1", "c1") = None

\* The summary a login after a logout restores: the one of the snapshot
\* document, none when there is no document or its summary is empty.
RestoredSummary(u, c) ==
    IF <<u, c>> \in DOMAIN short_term_memory
    THEN short_term_memory[<<u, c>>].slider_summary
    ELSE ""

\* C28: after logout, then login, then one ingestion of turn t on the same
\* pair, recentBuffer is exactly [t], messageCount is 1 and shortTermWindow
\* is exactly [t]: the turns the login restored are discarded by the first
\* ingestion, while the restored summary is kept.
C28_FirstIngestionAfterLogin ==
    \A p \in Pairs :
        (AtRest /\ session[p].phase = "restored_ingest") =>
            LET log == PairLog(p[1], p[2])
                t == TurnJson(log[Len(log)])
            IN  /\ recentBuffer(p[1], p[2]) = <<t>>
                /\ messageCount(p[1], p[2]) = 1
                /\ shortTermWindow(p[1], p[2]) = <<t>>
                /\ summaryText(p[1], p[2]) = RestoredSummary(p[1], p[2])

\* A window of 4 turns and a summary were saved at logout and restored by
\* login; after the ninth turn the window holds that turn alone and the
\* summary is still there.
C28_Witness ==
    /\ AtRest
    /\ session[<<"u1", "c1">>].phase = "restored_ingest"
    /\ Len(session[<<"u1", "c1">>].short_term) = 4
    /\ OrEmpty(session[<<"u1", "c1">>].slider_summary) # ""
    /\ Len(PairLog("u1", "c1")) = 9
    /\ shortTermWindow("u1", "c1") = <<TurnJson(PairLog("u1", "c1")[9])>>
    /\ summaryText("u1", "c1") = OrEmpty(session[<<"u1", "c1">>].slider_summary)

\* The durable long-term batches of user u, in insertion order.
BatchesOf(u) == SelectSeq(long_term_memory, LAMBDA b : b.user_id = u)

RECURSIVE PointsOf(_)
\* The points of the given batches, one after the other.
PointsOf(batches) ==
    IF batches = <<>> THEN <<>>
    ELSE batches[1].key_points \o PointsOf(Tail(batches))

C30_CountIsLogLength ==
    AtRest =>
        \A p \in Pairs :
            ~session[p].used =>
                messageCount(p[1], p[2]) = Len(PairLog(p[1], p[2]))

\* The `role: content` lines of the turns of log created after turn n.
LinesAfter(log, n) ==
    {log[i].role \o ": " \o log[i].content :
        i \in {j \in 1..Len(log) : log[j].timestamp > n}}

\* C31: under overlapping ingestions into one conversation, the Extractor
\* input of the long-term escalation triggered at count n holds no turn
\* ingested after the triggering turn: the buffer is read as it stood when
\* count n was obtained.
C31_ExtractorInputAsOfTrigger ==
    \A i \in 1..Len(llm_calls) :
        llm_calls[i].kind = "extract" =>
            \A k \in 1..Len(llm_calls[i].text) :
                llm_calls[i].text[k] \notin
                    LinesAfter(PairLog(llm_calls[i].user_id, llm_calls[i].conversation_id),
                               llm_calls[i].turn)

\* C31, amended: the Extractor input is made of the up-to-8 newest entries
\* of recentBuffer, oldest first, as the buffer stands when the long-term
\* escalation starts, which is after the awaited Summarizer call of the same
\* ingestion: every turn ingested meanwhile is in it.
C31_ExtractorInputAsOfStart ==
    [][(/\ Len(llm_calls') = Len(llm_calls) + 1
        /\ llm_calls'[Len(llm_calls')].kind = "extract") =>
           \A p \in Pairs :
               LET call == llm_calls'[Len(llm_calls')]
                   newest == Take(recentBuffer(p[1], p[2])', LongTermTrigger)
               IN  (call.user_id = p[1] /\ call.conversation_id = p[2]) =>
                       /\ Len(call.text) = Len(newest)
                       /\ \A k \in 1..Len(newest) :
                             call.text[k] = LineOf(newest[Len(newest) - k + 1])]_vars

\* The ingestion of turn 8 read count 8; turn 9 was ingested while its
\* Summarizer call was pending, and the Extractor was given turns 2 to 9.
C31_Witness ==
    \E i \in 1..Len(llm_calls) :
        /\ Len(PairLog("u1", "c1")) >= 9
        /\ llm_calls[i].kind = "extract"
        /\ llm_calls[i].count = 8
        /\ llm_calls[i].turn = 8
        /\ llm_calls[i].text = TurnLines(PairLog("u1", "c1"), 2, 9)

\* The Summarizer call i is answered with a text in this step.
SummaryArrives(i) ==
    /\ llm_calls[i].kind = "summarize"
    /\ llm_calls[i].reply = None
    /\ llm_calls'[i].reply \notin {None, Raised}

\* C32: when slider-summary escalations of two trigger counts overlap, the
\* summary stored once both have finished is the one produced for the later
\* trigger count: at rest the summary is the text of the Summarizer call of
\* the greatest trigger count, if that call gave one.
C32_LaterSummaryStays ==
    AtRest =>
        \A p \in Pairs :
            LET calls == Calls("summarize", p[1], p[2])
                last == calls[Len(calls)]
            IN  (/\ calls # <<>>
                 /\ \A i \in 1..Len(calls) : calls[i].count <= last.count
                 /\ last.reply \notin {None, Raised}) =>
                    summaryText(p[1], p[2]) = Strip(last.reply)

\* C32, amended: the summary stored is the text of the Summarizer call that
\* returned last, whatever its trigger count: every text that arrives
\* overwrites the summary, also one asked for at an earlier count than the
\* summary it overwrites, and nothing else changes the summary.
C32_LastReturnedSummaryStays ==
    [][\A p \in Pairs :
          LET arriving == {i \in 1..Len(llm_calls) :
                              /\ SummaryArrives(i)
                              /\ llm_calls[i].user_id = p[1]
                              /\ llm_calls[i].conversation_id = p[2]}
          IN  /\ \A i \in arriving :
                    summaryText(p[1], p[2])' = Strip(llm_calls'[i].reply)
              /\ arriving = {} => summary(p[1], p[2])' = summary(p[1], p[2])]_vars

\* The Summarizer call of count 8 was answered after the one of count 12:
\* both ingestions are over and the summary is the text of turns 1 to 4.
C32_Witness ==
    LET calls == Calls("summarize", "u1", "c1")
    IN  /\ AtRest
        /\ Len(calls) = 2
        /\ calls[1].count = 8
        /\ calls[2].count = 12
        /\ calls[1].reply \notin {None, Raised}
        /\ calls[2].reply \notin {None, Raised}
        /\ Strip(calls[1].reply) # ""
        /\ Strip(calls[2].reply) # ""
        /\ Strip(calls[1].reply) # Strip(calls[2].reply)
        /\ summaryText("u1", "c1") = Strip(calls[1].reply)

\* The step is one of an ingest, a login or a logout on the pair p.
ActsOn(p) ==
    \/ AtRest /\ (Login(p[1], p[2], 0) \/ Logout(p[1], p[2], 0))
    \/ /\ tasks' # tasks
       /\ \E t \in TaskIds :
             \E task \in {tasks[t], tasks'[t]} :
                 task.user_id = p[1] /\ task.conversation_id = p[2]

\* The four hot regions kept per (user, conversation).
PairRegions(u, c) ==
    <<recentBuffer(u, c), shortTermWindow(u, c), summary(u, c), messageCount(u, c)>>

\* C33: ingest, login and logout on (U, C1) leave recentBuffer,
\* shortTermWindow, summary and messageCount of every other conversation of
\* U and every hot region of every other user as they are; longTerm alone is
\* shared by the conversations of a user, and a context read returns it.
C33_OtherPairsUntouched ==
    [][/\ \A p, q \in Pairs \cup KeyPairs :
             (ActsOn(p) /\ q # p) =>
                 /\ PairRegions(q[1], q[2])' = PairRegions(q[1], q[2])
                 /\ q[1] # p[1] => longTerm(q[1])' = longTerm(q[1])
       /\ context' # NoContext =>
             context'[1].memory_state.long_term_points
                 \in {longTerm(u)' : u \in {context'[1].user_id}}]_vars

====
